---------------------------- MODULE Spec2Model ----------------------------
(***************************************************************************)
(* A model of LegalEvolutionMemoRAGLite (legal_evolution_memorag_lite.py): *)
(* the in-memory index built from the evolution-case and crisis-period     *)
(* tables, and the query pipeline (keyword extraction, full-scan           *)
(* retrieval, response synthesis, analysis, confidence, sources).          *)
(*                                                                         *)
(* Python values whose dynamic type matters (case ids, start dates, the    *)
(* query argument) are records [t |-> type name, s |-> str(value)].        *)
(* Text is modelled by TLA+ strings, character by character.  Scores and   *)
(* confidences are exact fractions [num, den]; the code uses binary        *)
(* floats, whose rounding is monotone, so order comparisons against the    *)
(* constants 0, 0.6 and 1 agree with the exact values.                     *)
(***************************************************************************)
EXTENDS Integers, Sequences, FiniteSets, TLC

VARIABLES
    config,           \* self.config (the retrieval_top_k entry)
    evolution_cases,  \* self.evolution_cases: the rows of the table, in order
    crisis_periods,   \* self.crisis_periods: the rows of the table, in order
    memory_index,     \* self.memory_index
    pc,               \* where the caller is: "ready", "loaded" or "returned"
    result,           \* how the last call ended, until the caller has taken it
    build,            \* progress of a _build_memory_index call that runs step by step
    observed          \* what the last call was given and saw (history of the call)

vars == <<config, evolution_cases, crisis_periods, memory_index, pc, result,
          build, observed>>

---------------------------------------------------------------------------
(* Bounds of the model *)

MaxCases == 2       \* rows of evolution_cases.csv
MaxCrises == 1      \* rows of crisis_periods.csv
MaxTopK == 2        \* the small positive retrieval_top_k tried beside the default

(* Program constants *)

DefaultTopK == 20       \* default_config["retrieval_top_k"]
MinKeywordLen == 3      \* len(w) > 3
MaxListedCases == 5     \* evolution_cases[:5]
MaxListedCrises == 3    \* crisis_cases[:3]
YearPrefixLen == 4      \* [:4], len(d) >= 4

---------------------------------------------------------------------------
(* Python values *)

PyStr(s) == [t |-> "str", s |-> s]
NaN == [t |-> "float", s |-> "nan"]
PyNone == [t |-> "NoneType", s |-> "None"]
PyInt(s) == [t |-> "int", s |-> s]

\* str(v)
Str(v) == v.s

\* pd.isna(v) for a scalar
IsNa(v) == v.t \in {"float", "NoneType"} /\ v.s \in {"nan", "None"}

\* bool(v): None and "" are false; nan and a non-zero number are true
Truthy(v) ==
    CASE v.t = "NoneType" -> FALSE
      [] v.t = "str" -> v.s # ""
      [] v.t = "int" -> v.s # "0"
      [] OTHER -> TRUE

\* An outcome of a call: a returned value or a raised exception
Ok(v) == [ok |-> TRUE, val |-> v]
Raise(e) == [ok |-> FALSE, val |-> e]

---------------------------------------------------------------------------
(* Text *)

Chars(s) == {SubSeq(s, i, i) : i \in 1..Len(s)}

UpperLetters == "ABCDEFGHIJKLMNOPQRSTUVWXYZ"
LowerLetters == "abcdefghijklmnopqrstuvwxyz"
Digits == "0123456789"

\* the characters \w matches (of those the texts use)
WordChars == Chars(UpperLetters) \cup Chars(LowerLetters) \cup Chars(Digits) \cup {"_"}

LowerTable ==
    [c \in Chars(UpperLetters) |->
        LET i == CHOOSE j \in 1..Len(UpperLetters) : SubSeq(UpperLetters, j, j) = c
        IN SubSeq(LowerLetters, i, i)]

LowerChar(c) == IF c \in DOMAIN LowerTable THEN LowerTable[c] ELSE c

\* str.lower(), by halves
RECURSIVE Lower(_)
Lower(s) ==
    IF Len(s) = 0 THEN ""
    ELSE IF Len(s) = 1 THEN LowerChar(s)
    ELSE LET h == Len(s) \div 2
         IN Lower(SubSeq(s, 1, h)) \o Lower(SubSeq(s, h + 1, Len(s)))

\* `sub in s` for strings
Contains(s, sub) ==
    \E i \in 1..(Len(s) - Len(sub) + 1) : SubSeq(s, i, i + Len(sub) - 1) = sub

Min(S) == CHOOSE x \in S : \A y \in S : x <= y

\* the first position from i on that holds a word character (Len(s) + 1 if none)
NextWordStart(s, i) ==
    Min({j \in i..Len(s) : SubSeq(s, j, j) \in WordChars} \cup {Len(s) + 1})

\* end of the run of word characters that starts at position i
WordEnd(s, i) ==
    Min({j \in i..Len(s) : j = Len(s) \/ SubSeq(s, j + 1, j + 1) \notin WordChars})

\* re.findall(r'\w+', s): the maximal runs of word characters, left to right
RECURSIVE FindAllWordsFrom(_, _)
FindAllWordsFrom(s, i) ==
    LET b == NextWordStart(s, i)
    IN IF b > Len(s) THEN <<>>
       ELSE LET e == WordEnd(s, b)
            IN <<SubSeq(s, b, e)>> \o FindAllWordsFrom(s, e + 1)

FindAllWords(s) == FindAllWordsFrom(s, 1)

Stopwords == {"de", "la", "el", "en", "y", "a", "que", "del", "las", "los",
              "con", "por", "para"}

SeqToSet(q) == {q[i] : i \in 1..Len(q)}

\* _extract_keywords: list(set(...)), whose order no caller depends on, as a set
ExtractKeywords(text) ==
    IF IsNa(text) THEN Ok({})
    ELSE IF text.t # "str" THEN Raise("TypeError")
    ELSE LET words == FindAllWords(Lower(text.s))
         IN Ok({w \in SeqToSet(words) : Len(w) > MinKeywordLen /\ w \notin Stopwords})

---------------------------------------------------------------------------
(* The tables.  A row is a pandas Series; fields whose dynamic type the    *)
(* code depends on are Python values, the others are given by their str(). *)

CaseFideicomiso ==
    [case_id |-> PyStr("ARG-001"), nombre_caso |-> "Fideicomiso Financiero",
     area_derecho |-> "comercial", fecha_inicio |-> PyStr("1995-01-05"),
     fecha_fin |-> "2024", tipo_seleccion |-> "Acumulativa", origen |-> "Transplante",
     exito |-> "Exitoso", presion_ambiental |-> "Alta",
     actores_principales |-> "CNV", normativa_primaria |-> "Ley 24.441",
     fallos_relevantes |-> "Fallos 330:1234", supervivencia_anos |-> "29",
     mutaciones_identificadas |-> "3", difusion_otras_jurisdicciones |-> "Uruguay",
     notas |-> PyStr("Reforma de 2015")]

\* a row whose start date and notes cells are empty (read_csv gives nan)
CaseAmparo ==
    [case_id |-> PyStr("ARG-002"), nombre_caso |-> "Accion de Amparo",
     area_derecho |-> "constitucional", fecha_inicio |-> NaN,
     fecha_fin |-> "1994", tipo_seleccion |-> "Mixta", origen |-> "Endogeno",
     exito |-> "Parcial", presion_ambiental |-> "Media",
     actores_principales |-> "CSJN", normativa_primaria |-> "Ley 16.986",
     fallos_relevantes |-> "Fallos 239:459", supervivencia_anos |-> "67",
     mutaciones_identificadas |-> "2", difusion_otras_jurisdicciones |-> "No",
     notas |-> NaN]

\* a row whose id cell is empty, with a two-character start date
CaseSinId ==
    [case_id |-> NaN, nombre_caso |-> "Ley de Fideicomisos",
     area_derecho |-> "civil", fecha_inicio |-> PyStr("95"),
     fecha_fin |-> "2015", tipo_seleccion |-> "Artificial", origen |-> "Hibrido",
     exito |-> "Exitoso", presion_ambiental |-> "Baja",
     actores_principales |-> "BCRA", normativa_primaria |-> "Decreto 780/95",
     fallos_relevantes |-> "nan", supervivencia_anos |-> "20",
     mutaciones_identificadas |-> "1", difusion_otras_jurisdicciones |-> "No",
     notas |-> NaN]

CaseRows == {CaseFideicomiso, CaseAmparo, CaseSinId}

CrisisDefault ==
    [crisis_id |-> PyStr("CRI-2001"), crisis_name |-> "Crisis 2001",
     start_date |-> PyStr("2001-12-01"), end_date |-> "2003-05-25",
     crisis_type |-> "Economica", severity_level |-> "5",
     legal_changes_count |-> "120", emergency_decrees |-> "45", new_laws |-> "30",
     acceleration_factor |-> "3.5", economic_indicators |-> "Default",
     recovery_timeline_months |-> "18", long_term_institutional_impact |-> "Alto"]

CrisisRows == {CrisisDefault}

SeqsUpTo(S, n) == UNION {[1..m -> S] : m \in 0..n}

\* the tables read_csv can return
CaseTables == SeqsUpTo(CaseRows, MaxCases)
CrisisTables == SeqsUpTo(CrisisRows, MaxCrises)

Indent == "        "
NL == "\n" \o Indent

\* _build_case_memory
BuildCaseMemory(case) ==
    NL \o "Legal Evolution Case: " \o case.nombre_caso
    \o NL \o "Legal Area: " \o case.area_derecho
    \o NL \o "Period: " \o Str(case.fecha_inicio) \o " to " \o case.fecha_fin
    \o NL \o "Evolution Type: " \o case.tipo_seleccion
    \o NL \o "Origin: " \o case.origen
    \o NL \o "Success Level: " \o case.exito
    \o NL \o "Environmental Pressure: " \o case.presion_ambiental
    \o NL \o "Key Actors: " \o case.actores_principales
    \o NL \o "Primary Legislation: " \o case.normativa_primaria
    \o NL \o "Relevant Rulings: " \o case.fallos_relevantes
    \o NL \o "Survival Years: " \o case.supervivencia_anos
    \o NL \o "Mutations: " \o case.mutaciones_identificadas
    \o NL \o "International Diffusion: " \o case.difusion_otras_jurisdicciones
    \o NL \o "Notes: " \o Str(case.notas)
    \o NL

\* _build_crisis_memory
BuildCrisisMemory(crisis) ==
    NL \o "Crisis Period: " \o crisis.crisis_name
    \o NL \o "Duration: " \o Str(crisis.start_date) \o " to " \o crisis.end_date
    \o NL \o "Type: " \o crisis.crisis_type
    \o NL \o "Severity: " \o crisis.severity_level
    \o NL \o "Legal Changes: " \o crisis.legal_changes_count
    \o NL \o "Emergency Decrees: " \o crisis.emergency_decrees
    \o NL \o "New Laws: " \o crisis.new_laws
    \o NL \o "Acceleration Factor: " \o crisis.acceleration_factor
    \o NL \o "Economic Indicators: " \o crisis.economic_indicators
    \o NL \o "Recovery Timeline: " \o crisis.recovery_timeline_months \o " months"
    \o NL \o "Long-term Impact: " \o crisis.long_term_institutional_impact
    \o NL

---------------------------------------------------------------------------
(* Dictionaries.  A dict whose iteration order the code uses is a sequence *)
(* of [key, value] items in insertion order; a defaultdict(list) that is   *)
(* only looked up by key is a function from its keys to lists.  All empty  *)
(* id cells of a table hold the one nan object, so they are the same key.  *)

DictKeys(d) == {d[i].key : i \in 1..Len(d)}

DictGet(d, k) == (CHOOSE it \in SeqToSet(d) : it.key = k).value

\* d[k] = v: a present key keeps its position
DictSet(d, k, v) ==
    IF k \in DictKeys(d)
    THEN [i \in 1..Len(d) |-> IF d[i].key = k THEN [key |-> k, value |-> v] ELSE d[i]]
    ELSE Append(d, [key |-> k, value |-> v])

\* dd[k].append(x) for every k of ks, on a defaultdict(list)
AppendUnder(dd, ks, x) ==
    [k \in (DOMAIN dd) \cup ks |->
        IF k \in ks THEN Append(IF k \in DOMAIN dd THEN dd[k] ELSE <<>>, x) ELSE dd[k]]

\* s[:n]
Prefix(s, n) == SubSeq(s, 1, IF Len(s) < n THEN Len(s) ELSE n)

---------------------------------------------------------------------------
(* _build_memory_index *)

EmptyIndex ==
    [evolution_cases |-> <<>>, crisis_periods |-> <<>>, transplant_cases |-> <<>>,
     keywords |-> <<>>, temporal |-> <<>>, legal_areas |-> <<>>]

\* the structure a rebuild starts from, with no reset of self.memory_index
ResetIndexKeep(prev) == prev

\* the assignment that opens _build_memory_index
ResetIndex(prev) == EmptyIndex

CaseEntry(case) ==
    [content |-> BuildCaseMemory(case),
     metadata |-> [legal_area |-> case.area_derecho, start_date |-> case.fecha_inicio,
                   success |-> case.exito, type |-> "evolution_case"]]

CrisisEntry(crisis) ==
    [content |-> BuildCrisisMemory(crisis),
     metadata |-> [crisis_type |-> crisis.crisis_type, severity |-> crisis.severity_level,
                   start_date |-> crisis.start_date, type |-> "crisis_period"]]

\* the keywords a case is indexed under
CaseKeywords(case) ==
    {Lower(kw) : kw \in ExtractKeywords(PyStr(case.nombre_caso \o " " \o Str(case.notas))).val}

\* the year key of a case
CaseYear(case) == Prefix(Str(case.fecha_inicio), YearPrefixLen)

\* the iteration with the by-id insertion left out for a row that has no id
IndexCaseSkipsStore(idx, case) ==
    [idx EXCEPT
        !.evolution_cases = IF IsNa(case.case_id) THEN @
                            ELSE DictSet(@, case.case_id, CaseEntry(case)),
        !.keywords = AppendUnder(@, CaseKeywords(case), case.case_id),
        !.temporal = AppendUnder(@, {CaseYear(case)}, case.case_id),
        !.legal_areas = AppendUnder(@, {case.area_derecho}, case.case_id)]

\* one iteration of the loop over the evolution cases
IndexCase(idx, case) ==
    [idx EXCEPT
        !.evolution_cases = DictSet(@, case.case_id, CaseEntry(case)),
        !.keywords = AppendUnder(@, CaseKeywords(case), case.case_id),
        !.temporal = AppendUnder(@, {CaseYear(case)}, case.case_id),
        !.legal_areas = AppendUnder(@, {case.area_derecho}, case.case_id)]

\* one iteration of the loop over the crisis periods
IndexCrisis(idx, crisis) ==
    [idx EXCEPT !.crisis_periods = DictSet(@, crisis.crisis_id, CrisisEntry(crisis))]

RECURSIVE IndexCasesFrom(_, _, _)
IndexCasesFrom(idx, cases, i) ==
    IF i > Len(cases) THEN idx ELSE IndexCasesFrom(IndexCase(idx, cases[i]), cases, i + 1)

RECURSIVE IndexCrisesFrom(_, _, _)
IndexCrisesFrom(idx, crises, i) ==
    IF i > Len(crises) THEN idx
    ELSE IndexCrisesFrom(IndexCrisis(idx, crises[i]), crises, i + 1)

\* the whole call, from the index object it finds to the one it leaves
BuildMemoryIndex(prev, cases, crises) ==
    IndexCrisesFrom(IndexCasesFrom(ResetIndex(prev), cases, 1), crises, 1)

---------------------------------------------------------------------------
(* Exact fractions for the float values *)

RECURSIVE GCD(_, _)
GCD(a, b) == IF b = 0 THEN a ELSE GCD(b, a % b)

\* n/d in lowest terms (n >= 0, d > 0)
Frac(n, d) == LET g == GCD(n, d) IN [num |-> n \div g, den |-> d \div g]
FLess(a, b) == a.num * b.den < b.num * a.den
FLeq(a, b) == a.num * b.den <= b.num * a.den
FAdd(a, b) == Frac(a.num * b.den + b.num * a.den, a.den * b.den)
FMul(a, b) == Frac(a.num * b.num, a.den * b.den)
FMin(a, b) == IF FLess(b, a) THEN b ELSE a
FZero == Frac(0, 1)
FOne == Frac(1, 1)

---------------------------------------------------------------------------
(* Retrieval *)

\* the score of a content that matches every keyword, whatever the keywords are
RelevanceScoreCountsContent(content, keywords) ==
    IF keywords = {} THEN FOne
    ELSE Frac(Len(FindAllWords(content)), Cardinality(keywords))

\* _calculate_relevance_score
CalculateRelevanceScore(content, keywords) ==
    IF keywords = {} THEN FZero
    ELSE LET content_lower == Lower(content)
             matches == Cardinality({k \in keywords : Contains(content_lower, k)})
         IN Frac(matches, Cardinality(keywords))

\* the scan of one partition of the by-id store: the entries that score above 0
RECURSIVE ScanFrom(_, _, _, _)
ScanFrom(store, type, keywords, i) ==
    IF i > Len(store) THEN <<>>
    ELSE LET score == CalculateRelevanceScore(store[i].value.content, keywords)
             rest == ScanFrom(store, type, keywords, i + 1)
         IN IF FLess(FZero, score)
            THEN <<[id |-> store[i].key, type |-> type, score |-> score,
                    content |-> store[i].value.content,
                    metadata |-> store[i].value.metadata]>> \o rest
            ELSE rest

\* x put behind the entries that do not score below it
InsertByScore(sorted, x) ==
    LET before == {i \in 1..Len(sorted) : FLess(sorted[i].score, x.score)}
        at == IF before = {} THEN Len(sorted) + 1
              ELSE CHOOSE i \in before : \A j \in before : i <= j
    IN SubSeq(sorted, 1, at - 1) \o <<x>> \o SubSeq(sorted, at, Len(sorted))

RECURSIVE SortFrom(_, _, _)
SortFrom(sorted, q, i) ==
    IF i > Len(q) THEN sorted ELSE SortFrom(InsertByScore(sorted, q[i]), q, i + 1)

\* an ascending sort that is then reversed: by score descending, with entries
\* of equal score in the reverse of their order in q
RECURSIVE SortThenReverse(_)
SortThenReverse(q) ==
    IF Len(q) = 0 THEN <<>>
    ELSE InsertByScore(SortThenReverse(Tail(q)), Head(q))

\* list.sort(key=score, reverse=True): stable, by score descending
SortByScoreDesc(q) == SortFrom(<<>>, q, 1)

\* a slice that keeps one entry more
SliceToInclusive(q, k) ==
    IF k >= 0 THEN SubSeq(q, 1, IF Len(q) < k + 1 THEN Len(q) ELSE k + 1)
    ELSE SubSeq(q, 1, Len(q) + k + 1)

\* q[:k], for k of either sign
SliceTo(q, k) ==
    IF k >= 0 THEN SubSeq(q, 1, IF Len(q) < k THEN Len(q) ELSE k)
    ELSE SubSeq(q, 1, Len(q) + k)

\* `not context_type or context_type == name`
Wants(context_type, name) == ~Truthy(context_type) \/ context_type = PyStr(name)

\* _search_memory
SearchMemory(idx, top_k, keywords, context_type) ==
    LET cases == IF Wants(context_type, "evolution_cases")
                 THEN ScanFrom(idx.evolution_cases, "evolution_case", keywords, 1)
                 ELSE <<>>
        crises == IF Wants(context_type, "crisis_periods")
                  THEN ScanFrom(idx.crisis_periods, "crisis_period", keywords, 1)
                  ELSE <<>>
    IN SliceTo(SortByScoreDesc(cases \o crises), top_k)

---------------------------------------------------------------------------
(* Confidence *)

RECURSIVE SumScores(_, _)
SumScores(cases, i) ==
    IF i > Len(cases) THEN FZero ELSE FAdd(cases[i].score, SumScores(cases, i + 1))

\* the confidence with the final min(..., 1.0) left out
ConfidenceUnclamped(cases) ==
    IF Len(cases) = 0 THEN FZero
    ELSE FAdd(FAdd(FAdd(Frac(6, 10), FMin(Frac(Len(cases) * 5, 100), Frac(3, 10))),
                   FMul(FMul(SumScores(cases, 1), Frac(1, Len(cases))), Frac(2, 10))),
              Frac(1, 10))

\* _calculate_confidence (its keywords argument is not read)
CalculateConfidence(cases) ==
    IF Len(cases) = 0 THEN FZero
    ELSE LET base_confidence == Frac(6, 10)
             case_boost == FMin(Frac(Len(cases) * 5, 100), Frac(3, 10))
             avg_score == FMul(SumScores(cases, 1), Frac(1, Len(cases)))
             score_boost == FMul(avg_score, Frac(2, 10))
             verified_boost == Frac(1, 10)
         IN FMin(FAdd(FAdd(FAdd(base_confidence, case_boost), score_boost),
                      verified_boost),
                 FOne)

---------------------------------------------------------------------------
(* Formatting and string order *)

DigitStr(d) == SubSeq(Digits, d + 1, d + 1)

\* str(n) for n >= 0
RECURSIVE IntStr(_)
IntStr(n) == IF n < 10 THEN DigitStr(n) ELSE IntStr(n \div 10) \o DigitStr(n % 10)

\* f scaled by `scale` and rounded to an integer, halves to even (the values
\* formatted here are either exact in binary or not halfway)
RoundScaled(f, scale) ==
    LET q == (f.num * scale) \div f.den
        r == (f.num * scale) % f.den
    IN IF 2 * r > f.den \/ (2 * r = f.den /\ q % 2 = 1) THEN q + 1 ELSE q

\* f"{x:.2f}"
Format2(f) ==
    LET h == RoundScaled(f, 100)
    IN IntStr(h \div 100) \o "." \o DigitStr((h \div 10) % 10) \o DigitStr(h % 10)

\* f"{x:.1f}"
Format1(f) ==
    LET t == RoundScaled(f, 10)
    IN IntStr(t \div 10) \o "." \o DigitStr(t % 10)

\* the ASCII characters the texts use, in code order
AsciiOrder ==
    " !#$%&'()*+,-./0123456789:;<=>?@ABCDEFGHIJKLMNOPQRSTUVWXYZ_abcdefghijklmnopqrstuvwxyz"

CharCode(c) == CHOOSE i \in 1..Len(AsciiOrder) : SubSeq(AsciiOrder, i, i) = c

\* a < b for strings
RECURSIVE StrLess(_, _)
StrLess(a, b) ==
    IF Len(b) = 0 THEN FALSE
    ELSE IF Len(a) = 0 THEN TRUE
    ELSE IF Head(a) = Head(b) THEN StrLess(Tail(a), Tail(b))
    ELSE CharCode(Head(a)) < CharCode(Head(b))

\* min(q) and max(q) of a non-empty list of strings
MinStr(q) == CHOOSE x \in SeqToSet(q) : \A y \in SeqToSet(q) : ~StrLess(y, x)
MaxStr(q) == CHOOSE x \in SeqToSet(q) : \A y \in SeqToSet(q) : ~StrLess(x, y)

\* "\n".join(q)
RECURSIVE JoinLines(_)
JoinLines(q) ==
    IF Len(q) = 0 THEN ""
    ELSE IF Len(q) = 1 THEN q[1]
    ELSE q[1] \o "\n" \o JoinLines(Tail(q))

\* q.count(x)
Count(q, x) == Cardinality({i \in 1..Len(q) : q[i] = x})

---------------------------------------------------------------------------
(* Response and insights.  Accented letters and pictographs of the         *)
(* templates are written in ASCII.                                         *)

NoCasesMessage == "No se encontraron casos relevantes para la consulta."

HasArea(c) == "legal_area" \in DOMAIN c.metadata /\ c.metadata.legal_area # ""
HasSuccess(c) == "success" \in DOMAIN c.metadata /\ c.metadata.success # ""
HasDate(c) == "start_date" \in DOMAIN c.metadata /\ Truthy(c.metadata.start_date)

\* [c['metadata'].get(f) for c in cases if c['metadata'].get(f)]
AreasOf(cases) ==
    LET kept == SelectSeq(cases, HasArea)
    IN [i \in 1..Len(kept) |-> kept[i].metadata.legal_area]
SuccessesOf(cases) ==
    LET kept == SelectSeq(cases, HasSuccess)
    IN [i \in 1..Len(kept) |-> kept[i].metadata.success]
DatesOf(cases) ==
    LET kept == SelectSeq(cases, HasDate)
    IN [i \in 1..Len(kept) |-> kept[i].metadata.start_date]

\* max(set(areas), key=areas.count) returns the first area of highest count in
\* the iteration order of the set, which is the order of the string hashes of
\* the run: any area of highest count can come out
MostCommonAreas(areas) ==
    {a \in SeqToSet(areas) : \A b \in SeqToSet(areas) : Count(areas, b) <= Count(areas, a)}

IsLongStr(d) == Len(d.s) >= YearPrefixLen

\* _generate_insights, with the area the max() call returned
GenerateInsights(cases, most_common_area) ==
    IF Len(cases) = 0 THEN Ok("No se generaron insights suficientes.\n")
    ELSE LET areas == AreasOf(cases)
             successes == SuccessesOf(cases)
             dates == DatesOf(cases)
             area_line == IF Len(areas) > 0
                          THEN <<"- Area legal mas relevante: " \o most_common_area>>
                          ELSE <<>>
             success_rate == Frac(Count(successes, "Exitoso") * 100, Len(successes))
             success_line == IF Len(successes) > 0
                             THEN <<"- Tasa de exito en casos relevantes: "
                                    \o Format1(success_rate) \o "%">>
                             ELSE <<>>
             long == SelectSeq(dates, IsLongStr)
             years == [i \in 1..Len(long) |-> Prefix(long[i].s, YearPrefixLen)]
             period_line == IF Len(years) > 0
                            THEN <<"- Periodo temporal: " \o MinStr(years) \o "-"
                                   \o MaxStr(years)>>
                            ELSE <<>>
         IN IF \E i \in 1..Len(dates) : dates[i].t # "str"
            THEN Raise("object of type '" \o (CHOOSE d \in SeqToSet(dates) : d.t # "str").t
                       \o "' has no len()")
            ELSE Ok(JoinLines(area_line \o success_line \o period_line) \o "\n")

IsCase(c) == c.type = "evolution_case"
IsCrisis(c) == c.type = "crisis_period"

RECURSIVE CaseLines(_, _)
CaseLines(q, i) ==
    IF i > Len(q) THEN ""
    ELSE IntStr(i) \o ". Area: " \o q[i].metadata.legal_area
         \o ", Inicio: " \o Str(q[i].metadata.start_date)
         \o ", Exito: " \o q[i].metadata.success
         \o " (Score: " \o Format2(q[i].score) \o ")\n" \o CaseLines(q, i + 1)

RECURSIVE CrisisLines(_, _)
CrisisLines(q, i) ==
    IF i > Len(q) THEN ""
    ELSE IntStr(i) \o ". Tipo: " \o q[i].metadata.crisis_type
         \o ", Severidad: " \o q[i].metadata.severity
         \o ", Inicio: " \o Str(q[i].metadata.start_date)
         \o " (Score: " \o Format2(q[i].score) \o ")\n" \o CrisisLines(q, i + 1)

\* the template filled in whatever the list holds
GenerateResponseNoEmptyCheck(query, relevant_cases, most_common_area) ==
    LET insights == GenerateInsights(relevant_cases, most_common_area)
    IN IF ~insights.ok THEN insights
       ELSE Ok("Analisis de evolucion legal para: '" \o Str(query) \o "'\n\n"
               \o "INSIGHTS PRINCIPALES:\n" \o insights.val)

\* _generate_response, with the area the max() call of the insights returned
GenerateResponse(query, relevant_cases, most_common_area) ==
    IF Len(relevant_cases) = 0 THEN Ok(NoCasesMessage)
    ELSE LET evolution == SelectSeq(relevant_cases, IsCase)
             crisis == SelectSeq(relevant_cases, IsCrisis)
             insights == GenerateInsights(relevant_cases, most_common_area)
         IN IF ~insights.ok THEN insights
            ELSE Ok("Analisis de evolucion legal para: '" \o Str(query) \o "'\n\n"
                    \o "Basado en el analisis del dataset Legal Evolution Dataset con Reality Filter:\n\n"
                    \o (IF Len(evolution) > 0
                        THEN "CASOS DE EVOLUCION LEGAL RELEVANTES:\n"
                             \o CaseLines(SliceTo(evolution, MaxListedCases), 1) \o "\n"
                        ELSE "")
                    \o (IF Len(crisis) > 0
                        THEN "PERIODOS DE CRISIS RELEVANTES:\n"
                             \o CrisisLines(SliceTo(crisis, MaxListedCrises), 1) \o "\n"
                        ELSE "")
                    \o "INSIGHTS PRINCIPALES:\n"
                    \o insights.val)

---------------------------------------------------------------------------
(* Analysis of the response and sources *)

LegalDomains ==
    <<"constitucional", "civil", "comercial", "financiero", "administrativo",
      "procesal", "criminal", "laboral", "tributario", "cambiario", "bancario",
      "ambiental">>
Mechanisms == <<"acumulativa", "artificial", "mixta", "transplante", "endogeno", "hibrido">>
SuccessTerms == <<"exitoso", "parcial", "fracaso", "en_desarrollo">>

IsDigit(c) == c \in Chars(Digits)

\* [t for t in terms if t in text]
RECURSIVE Mentioned(_, _, _)
Mentioned(terms, text, i) ==
    IF i > Len(terms) THEN <<>>
    ELSE (IF Contains(text, terms[i]) THEN <<terms[i]>> ELSE <<>>)
         \o Mentioned(terms, text, i + 1)

\* set(re.findall(r'\b(19|20)\d{2}\b', s)): findall returns the one group
YearGroups(s) ==
    {SubSeq(s, i, i + 1) : i \in
        {j \in 1..(Len(s) - 3) :
            /\ SubSeq(s, j, j + 1) \in {"19", "20"}
            /\ IsDigit(SubSeq(s, j + 2, j + 2))
            /\ IsDigit(SubSeq(s, j + 3, j + 3))
            /\ (j = 1 \/ SubSeq(s, j - 1, j - 1) \notin WordChars)
            /\ (j + 3 = Len(s) \/ SubSeq(s, j + 4, j + 4) \notin WordChars)}}

\* _analyze_response
AnalyzeResponse(response) ==
    LET response_lower == Lower(response)
    IN [legal_areas_mentioned |-> Mentioned(LegalDomains, response_lower, 1),
        temporal_patterns |-> YearGroups(response),
        evolution_mechanisms |-> Mentioned(Mechanisms, response_lower, 1),
        success_indicators |-> Mentioned(SuccessTerms, response_lower, 1),
        crisis_indicators |-> <<>>]

\* end of the run of digits that starts at position i
DigitsEnd(s, i) ==
    Min({j \in i..Len(s) : j = Len(s) \/ ~IsDigit(SubSeq(s, j + 1, j + 1))})

\* the matches of word \d+ sep \d+ (re.IGNORECASE); low is s.lower()
NumberedMatches(s, low, word, sep) ==
    LET n == Len(word)
        starts == {i \in 1..(Len(s) - n - 2) :
                     /\ SubSeq(low, i, i + n - 1) = word
                     /\ IsDigit(SubSeq(s, i + n, i + n))
                     /\ LET e == DigitsEnd(s, i + n)
                        IN /\ e + 2 <= Len(s)
                           /\ SubSeq(s, e + 1, e + 1) = sep
                           /\ IsDigit(SubSeq(s, e + 2, e + 2))}
    IN {SubSeq(s, i, DigitsEnd(s, DigitsEnd(s, i + n) + 2)) : i \in starts}

\* the matches of a literal (re.IGNORECASE)
LiteralMatches(s, low, word) ==
    {SubSeq(s, i, i + Len(word) - 1) :
        i \in {j \in 1..(Len(s) - Len(word) + 1) : SubSeq(low, j, j + Len(word) - 1) = word}}

\* _extract_sources: list(set(...)), as a set
ExtractSources(response) ==
    LET low == Lower(response)
    IN NumberedMatches(response, low, "ley ", ".")
       \cup NumberedMatches(response, low, "decreto ", "/")
       \cup NumberedMatches(response, low, "fallos ", ":")
       \cup UNION {LiteralMatches(response, low, w) :
                     w \in {"infoleg", "saij", "csjn", "bcra", "cnv"}}

---------------------------------------------------------------------------
(* query_legal_evolution *)

Timestamp == "datetime.now().isoformat()"

StripMatch(m) == [id |-> m.id, type |-> m.type, score |-> m.score]

\* the body of the try block: the ways it can end, each with the list
\* _search_memory returned (searched: whether that call was reached)
QueryBody(idx, top_k, query, context_type) ==
    LET query_keywords == ExtractKeywords(query)
        relevant_cases == SearchMemory(idx, top_k, query_keywords.val, context_type)
        picks == IF AreasOf(relevant_cases) = <<>> THEN {""}
                 ELSE MostCommonAreas(AreasOf(relevant_cases))
        Finish(pick) ==
            LET response == GenerateResponse(query, relevant_cases, pick)
            IN IF ~response.ok THEN response
               ELSE Ok([query |-> query,
                        response |-> response.val,
                        analysis |-> AnalyzeResponse(response.val),
                        relevant_cases |->
                            [i \in 1..Len(relevant_cases) |-> relevant_cases[i].id],
                        confidence |-> CalculateConfidence(relevant_cases),
                        sources |-> ExtractSources(response.val),
                        timestamp |-> Timestamp])
    IN IF ~query_keywords.ok
       THEN {[end |-> query_keywords, searched |-> FALSE, matches |-> <<>>]}
       ELSE {[end |-> Finish(pick), searched |-> TRUE,
              matches |-> [i \in 1..Len(relevant_cases) |-> StripMatch(relevant_cases[i])]]
             : pick \in picks}

Returned(v) == [outcome |-> "returned", value |-> v]
Raised(e) == [outcome |-> "raised", value |-> e]
NoResult == [outcome |-> "none", value |-> ""]

\* the method with no except clause
QueryLegalEvolutionNoExcept(idx, top_k, query, context_type) ==
    {[result |-> IF b.end.ok THEN Returned(b.end.val) ELSE Raised(b.end.val),
      searched |-> b.searched, matches |-> b.matches]
     : b \in QueryBody(idx, top_k, query, context_type)}

\* query_legal_evolution: the try block and its except clause
QueryLegalEvolution(idx, top_k, query, context_type) ==
    {[result |-> IF b.end.ok THEN Returned(b.end.val)
                 ELSE Returned([query |-> query, error |-> b.end.val,
                                timestamp |-> Timestamp]),
      searched |-> b.searched, matches |-> b.matches]
     : b \in QueryBody(idx, top_k, query, context_type)}

\* a query that looks its keywords up in the keyword defaultdict, which
\* creates an empty list under every keyword that has none
IndexAfterQueryLookup(idx, query, context_type) ==
    LET kw == ExtractKeywords(query)
    IN IF kw.ok
       THEN [idx EXCEPT !.keywords =
                [k \in (DOMAIN @) \cup kw.val |-> IF k \in DOMAIN @ THEN @[k] ELSE <<>>]]
       ELSE idx

\* self.memory_index after a query: the scan reads the two plain dicts through
\* .items() and writes nothing
IndexAfterQuery(idx, query, context_type) == idx

---------------------------------------------------------------------------
(* Inputs *)

\* the default, a negative value, zero and a small positive value
TopKValues == {DefaultTopK, 0 - 1, 0, MaxTopK}

Queries ==
    {PyStr("legal"), PyStr("Fideicomiso legal"), PyStr("hipoteca para el campo"),
     PyNone, PyInt("2001")}

ContextTypes ==
    {PyNone, PyStr("evolution_cases"), PyStr("crisis_periods"), PyStr("transplant_cases")}

Idle == [pc |-> "idle", i |-> 0]
NoCall == [op |-> "none"]

---------------------------------------------------------------------------
(* The program, one caller: calls run to completion *)

\* __init__: the tables are loaded and the index is built from them
Init ==
    /\ config \in [retrieval_top_k : TopKValues]
    /\ evolution_cases \in CaseTables
    /\ crisis_periods \in CrisisTables
    /\ memory_index = BuildMemoryIndex(EmptyIndex, evolution_cases, crisis_periods)
    /\ pc = "ready"
    /\ result = NoResult
    /\ build = Idle
    /\ observed = NoCall

\* _load_legal_datasets: the files are read again
LoadLegalDatasets ==
    /\ pc = "ready"
    /\ evolution_cases' \in CaseTables
    /\ crisis_periods' \in CrisisTables
    /\ pc' = "loaded"
    /\ UNCHANGED <<config, memory_index, result, build, observed>>

\* _build_memory_index, on the tables as they are
BuildIndex ==
    /\ pc \in {"ready", "loaded"}
    /\ memory_index' = BuildMemoryIndex(memory_index, evolution_cases, crisis_periods)
    /\ pc' = "returned"
    /\ result' = Returned("None")
    /\ observed' = [op |-> "build",
                    ids_before |-> DictKeys(memory_index.evolution_cases)
                                   \cup DictKeys(memory_index.crisis_periods)]
    /\ UNCHANGED <<config, evolution_cases, crisis_periods, build>>

\* query_legal_evolution(query, context_type)
Query ==
    /\ pc = "ready"
    /\ \E query \in Queries, context_type \in ContextTypes :
         \E r \in QueryLegalEvolution(memory_index, config.retrieval_top_k,
                                      query, context_type) :
            /\ result' = r.result
            /\ observed' = [op |-> "query", query |-> query,
                            context_type |-> context_type,
                            searched |-> r.searched, matches |-> r.matches]
            /\ memory_index' = IndexAfterQuery(memory_index, query, context_type)
    /\ pc' = "returned"
    /\ UNCHANGED <<config, evolution_cases, crisis_periods, build>>

\* the caller takes the returned value
Return ==
    /\ pc = "returned"
    /\ pc' = "ready"
    /\ result' = NoResult
    /\ observed' = NoCall
    /\ UNCHANGED <<config, evolution_cases, crisis_periods, memory_index, build>>

Next == LoadLegalDatasets \/ BuildIndex \/ Query \/ Return

Spec == Init /\ [][Next]_vars

---------------------------------------------------------------------------
(* The program with a second thread: _build_memory_index runs statement by *)
(* statement while another thread queries the same object.                 *)

ConcInit ==
    /\ config = [retrieval_top_k |-> DefaultTopK]
    /\ evolution_cases \in CaseTables
    /\ crisis_periods \in CrisisTables
    /\ memory_index = BuildMemoryIndex(EmptyIndex, evolution_cases, crisis_periods)
    /\ pc = "ready"
    /\ result = NoResult
    /\ build = [pc |-> "idle", i |-> 0, old |-> memory_index]
    /\ observed = NoCall

\* self.memory_index = {...}: the empty structure replaces the index
BuildReset ==
    /\ build.pc = "idle"
    /\ memory_index' = ResetIndex(memory_index)
    /\ build' = [pc |-> "cases", i |-> 1, old |-> memory_index]
    /\ UNCHANGED <<config, evolution_cases, crisis_periods, pc, result, observed>>

\* one iteration of the loop over self.evolution_cases
BuildCaseStep ==
    /\ build.pc = "cases"
    /\ build.i <= Len(evolution_cases)
    /\ memory_index' = IndexCase(memory_index, evolution_cases[build.i])
    /\ build' = [build EXCEPT !.i = @ + 1]
    /\ UNCHANGED <<config, evolution_cases, crisis_periods, pc, result, observed>>

\* the loop over the cases is over
BuildCasesDone ==
    /\ build.pc = "cases"
    /\ build.i > Len(evolution_cases)
    /\ build' = [build EXCEPT !.pc = "crises", !.i = 1]
    /\ UNCHANGED <<config, evolution_cases, crisis_periods, memory_index, pc, result,
                   observed>>

\* one iteration of the loop over self.crisis_periods
BuildCrisisStep ==
    /\ build.pc = "crises"
    /\ build.i <= Len(crisis_periods)
    /\ memory_index' = IndexCrisis(memory_index, crisis_periods[build.i])
    /\ build' = [build EXCEPT !.i = @ + 1]
    /\ UNCHANGED <<config, evolution_cases, crisis_periods, pc, result, observed>>

\* the call returns
BuildFinish ==
    /\ build.pc = "crises"
    /\ build.i > Len(crisis_periods)
    /\ build' = [pc |-> "idle", i |-> 0, old |-> memory_index]
    /\ UNCHANGED <<config, evolution_cases, crisis_periods, memory_index, pc, result,
                   observed>>

\* a query of the other thread, wherever the build is
ConcQuery ==
    /\ pc = "ready"
    /\ \E query \in Queries, context_type \in ContextTypes :
         \E r \in QueryLegalEvolution(memory_index, config.retrieval_top_k,
                                      query, context_type) :
            /\ result' = r.result
            /\ observed' = [op |-> "query", query |-> query,
                            context_type |-> context_type,
                            searched |-> r.searched, matches |-> r.matches,
                            index |-> memory_index, old |-> build.old]
            /\ memory_index' = IndexAfterQuery(memory_index, query, context_type)
    /\ pc' = "returned"
    /\ UNCHANGED <<config, evolution_cases, crisis_periods, build>>

ConcNext ==
    \/ BuildReset \/ BuildCaseStep \/ BuildCasesDone \/ BuildCrisisStep \/ BuildFinish
    \/ ConcQuery \/ Return

ConcSpec == ConcInit /\ [][ConcNext]_vars

---------------------------------------------------------------------------
(* Properties *)

QueryReturned == pc = "returned" /\ observed.op = "query"
Searched == QueryReturned /\ observed.searched
Succeeded ==
    QueryReturned /\ result.outcome = "returned" /\ "error" \notin DOMAIN result.value

StoredContents(idx) ==
    {idx.evolution_cases[i].value.content : i \in 1..Len(idx.evolution_cases)}
    \cup {idx.crisis_periods[i].value.content : i \in 1..Len(idx.crisis_periods)}

StoredIds(idx) == DictKeys(idx.evolution_cases) \cup DictKeys(idx.crisis_periods)

\* every id held by a list of a secondary index
ListedIds(dd) == UNION {SeqToSet(dd[k]) : k \in DOMAIN dd}

SecondaryIds(idx) ==
    ListedIds(idx.keywords) \cup ListedIds(idx.temporal) \cup ListedIds(idx.legal_areas)

ProbeKeywordSets == SUBSET {"legal", "fideicomiso", "hipoteca"}

\* C1: for every stored content (and the empty one) and every keyword set,
\* _calculate_relevance_score returns a value in [0, 1], and 0.0 for the empty set.
C1_ScoreInUnitInterval ==
    pc = "ready" =>
        \A content \in StoredContents(memory_index) \cup {""} :
            \A keywords \in ProbeKeywordSets :
                LET r == CalculateRelevanceScore(content, keywords)
                IN /\ FLeq(FZero, r)
                   /\ FLeq(r, FOne)
                   /\ (keywords = {} => r = FZero)

\* a stored content that matches some but not all keywords of a probe set
C1_Witness ==
    /\ pc = "ready"
    /\ \E content \in StoredContents(memory_index) :
         \E keywords \in ProbeKeywordSets :
            LET r == CalculateRelevanceScore(content, keywords)
            IN FLess(FZero, r) /\ FLess(r, FOne)

\* C2: every id in a list of the keyword, temporal or legal-area index is a
\* key of the by-id store.
C2_ReferentialIntegrity == SecondaryIds(memory_index) \subseteq StoredIds(memory_index)

\* a built index in which an id-less row is listed, and some id twice under a key
C2_Witness ==
    /\ pc = "ready"
    /\ NaN \in SecondaryIds(memory_index)
    /\ \E k \in DOMAIN memory_index.keywords : Len(memory_index.keywords[k]) >= 2

NonIncreasing(m) ==
    \A i, j \in 1..Len(m) : i < j => ~FLess(m[i].score, m[j].score)

\* C3 as stated: for every configured retrieval_top_k, _search_memory returns at
\* most retrieval_top_k entries, ordered by score non-increasing.  (No list has
\* fewer than 0 entries: "at most k" is read as "at most max(k, 0)", so that an
\* empty list never counts against the claim.)
C3_Original ==
    Searched =>
        /\ Len(observed.matches) <=
              (IF config.retrieval_top_k < 0 THEN 0 ELSE config.retrieval_top_k)
        /\ NonIncreasing(observed.matches)

\* C3 amended: the list _search_memory returns is ordered by score
\* non-increasing; for retrieval_top_k >= 0 it holds at most retrieval_top_k
\* entries; for retrieval_top_k < 0 it is the ranked list without its last
\* -retrieval_top_k entries, so it is empty or that much shorter than the store.
C3_TopKAndOrder ==
    Searched =>
        LET n == Len(observed.matches)
            k == config.retrieval_top_k
            stored == Len(memory_index.evolution_cases) + Len(memory_index.crisis_periods)
        IN /\ NonIncreasing(observed.matches)
           /\ (k >= 0 => n <= k)
           /\ (k < 0 => n = 0 \/ n <= stored + k)

\* three stored entries match, the two best are returned, and the sort has
\* moved the second scanned entry in front of the first
C3_Witness ==
    /\ Searched
    /\ config.retrieval_top_k = MaxTopK
    /\ observed.query = PyStr("Fideicomiso legal")
    /\ observed.context_type = PyNone
    /\ Len(memory_index.evolution_cases) + Len(memory_index.crisis_periods) > MaxTopK
    /\ Len(observed.matches) = MaxTopK
    /\ Len(memory_index.evolution_cases) >= 2
    /\ observed.matches[1].id = memory_index.evolution_cases[2].key
    /\ FLess(observed.matches[2].score, observed.matches[1].score)

\* C4: the confidence is 0.0 exactly when the match list is empty, and lies in
\* [0.6, 1.0] for a non-empty one.
C4_ConfidenceRange ==
    Succeeded =>
        LET c == result.value.confidence
            n == Len(observed.matches)
        IN /\ (c = FZero <=> n = 0)
           /\ (n > 0 => FLeq(Frac(6, 10), c) /\ FLeq(c, FOne))

\* three matches of score 1: the sum 1.05 is cut to 1.0
C4_Witness ==
    /\ Succeeded
    /\ Len(observed.matches) = 3
    /\ \A i \in 1..3 : observed.matches[i].score = FOne
    /\ result.value.confidence = FOne

\* the ids of the rows, in row order, that a test selects
RECURSIVE IdsWhere(_, _, _)
IdsWhere(rows, Test(_), i) ==
    IF i > Len(rows) THEN <<>>
    ELSE (IF Test(rows[i]) THEN <<rows[i].case_id>> ELSE <<>>) \o IdsWhere(rows, Test, i + 1)

\* the last row that carries an id
LastWithId(rows, Id(_), id) ==
    rows[CHOOSE i \in 1..Len(rows) :
            Id(rows[i]) = id /\ \A j \in 1..Len(rows) : Id(rows[j]) = id => j <= i]

CaseId(row) == row.case_id
CrisisId(row) == row.crisis_id

\* what one build from the given tables holds: per id the entry of its last
\* row, and under each keyword, year and area the ids of its rows in row order
IsFreshIndex(idx, cases, crises) ==
    /\ DictKeys(idx.evolution_cases) = {cases[i].case_id : i \in 1..Len(cases)}
    /\ Len(idx.evolution_cases) = Cardinality(DictKeys(idx.evolution_cases))
    /\ \A id \in DictKeys(idx.evolution_cases) :
          DictGet(idx.evolution_cases, id) = CaseEntry(LastWithId(cases, CaseId, id))
    /\ DictKeys(idx.crisis_periods) = {crises[i].crisis_id : i \in 1..Len(crises)}
    /\ Len(idx.crisis_periods) = Cardinality(DictKeys(idx.crisis_periods))
    /\ \A id \in DictKeys(idx.crisis_periods) :
          DictGet(idx.crisis_periods, id) = CrisisEntry(LastWithId(crises, CrisisId, id))
    /\ idx.transplant_cases = <<>>
    /\ DOMAIN idx.keywords = UNION {CaseKeywords(cases[i]) : i \in 1..Len(cases)}
    /\ \A k \in DOMAIN idx.keywords :
          idx.keywords[k] = IdsWhere(cases, LAMBDA r : k \in CaseKeywords(r), 1)
    /\ DOMAIN idx.temporal = {CaseYear(cases[i]) : i \in 1..Len(cases)}
    /\ \A y \in DOMAIN idx.temporal :
          idx.temporal[y] = IdsWhere(cases, LAMBDA r : CaseYear(r) = y, 1)
    /\ DOMAIN idx.legal_areas = {cases[i].area_derecho : i \in 1..Len(cases)}
    /\ \A a \in DOMAIN idx.legal_areas :
          idx.legal_areas[a] = IdsWhere(cases, LAMBDA r : r.area_derecho = a, 1)

\* C5: after any sequence of _build_memory_index calls the index is the one a
\* single build makes from the current tables: nothing of an earlier table and
\* nothing of an earlier build of the same table is left in it.
C5_RebuildIsFresh ==
    (pc = "ready" \/ (pc = "returned" /\ observed.op = "build")) =>
        IsFreshIndex(memory_index, evolution_cases, crisis_periods)

\* a rebuild that found an id of an earlier table and left a non-empty index
\* without it
C5_Witness ==
    /\ pc = "returned"
    /\ observed.op = "build"
    /\ \E id \in observed.ids_before : id \notin StoredIds(memory_index)
    /\ memory_index.keywords # <<>>
    /\ memory_index.crisis_periods # <<>>

\* C6: a row whose id is missing is left out of the by-id store and of the
\* keyword, year and area indexes, and the store holds one entry per id that
\* is present.
C6_MissingIdSkipped ==
    pc = "ready" =>
        /\ \A id \in StoredIds(memory_index) \cup SecondaryIds(memory_index) : ~IsNa(id)
        /\ Len(memory_index.evolution_cases) =
             Cardinality({evolution_cases[i].case_id : i \in 1..Len(evolution_cases)}
                         \ {NaN})

\* the start dates of the stored entries that a match list names
MatchDates(idx, matches) ==
    {(IF matches[i].type = "evolution_case"
      THEN DictGet(idx.evolution_cases, matches[i].id)
      ELSE DictGet(idx.crisis_periods, matches[i].id)).metadata.start_date
     : i \in 1..Len(matches)}

\* a stage of the pipeline fails: the keyword extraction on a query that is no
\* string, or the insights on a match whose start date is no string
StageFails ==
    \/ ~ExtractKeywords(observed.query).ok
    \/ \E d \in MatchDates(memory_index, observed.matches) : d.t # "str"

\* C7: query_legal_evolution always returns; the returned object carries the
\* query and a timestamp, and carries an error field when a stage failed.
C7_NeverPropagates ==
    QueryReturned =>
        /\ result.outcome = "returned"
        /\ result.value.query = observed.query
        /\ result.value.timestamp = Timestamp
        /\ (StageFails => DOMAIN result.value = {"query", "error", "timestamp"})

\* a failure after the search: a match has nan for a start date
C7_Witness ==
    /\ QueryReturned
    /\ observed.searched
    /\ Len(observed.matches) > 0
    /\ "error" \in DOMAIN result.value

\* no stored content holds a keyword of the query
NoKeywordMatches(idx, keywords) ==
    \A content \in StoredContents(idx) :
        LET content_lower == Lower(content)
        IN \A k \in keywords : ~Contains(content_lower, k)

\* C8: when no keyword of the query occurs in any stored content, the query
\* returns no relevant cases, confidence 0.0 and the fixed message, and no
\* error field.
C8_NoMatchAnswer ==
    (/\ QueryReturned
     /\ ExtractKeywords(observed.query).ok
     /\ NoKeywordMatches(memory_index, ExtractKeywords(observed.query).val)) =>
        /\ result.outcome = "returned"
        /\ "error" \notin DOMAIN result.value
        /\ result.value.relevant_cases = <<>>
        /\ result.value.confidence = FZero
        /\ result.value.response = NoCasesMessage

\* a query with keywords, none of which occurs in the three stored contents
C8_Witness ==
    /\ QueryReturned
    /\ observed.query = PyStr("hipoteca para el campo")
    /\ observed.context_type = PyNone
    /\ Len(memory_index.evolution_cases) = 2
    /\ Len(memory_index.crisis_periods) = 1
    /\ result.value.response = NoCasesMessage

\* C9: the index a query scans is a complete one: the index as it was before
\* the rebuild began, or the index the rebuild ends with.
C9_QuerySeesCompleteIndex ==
    (observed.op = "query" /\ "index" \in DOMAIN observed) =>
        observed.index \in
            {observed.old, BuildMemoryIndex(EmptyIndex, evolution_cases, crisis_periods)}

\* C10: a query step leaves self.memory_index as it was.
C10_QueryLeavesIndex ==
    [][(pc = "ready" /\ pc' = "returned" /\ observed'.op = "query")
         => memory_index' = memory_index]_vars

\* a successful query with matches, and the index still the built one
C10_Witness ==
    /\ Succeeded
    /\ Len(observed.matches) > 0
    /\ memory_index.keywords # <<>>

\* the entries the scan of _search_memory scores above 0, before the slice
ScanMatches(idx, keywords, context_type) ==
    SearchMemory(idx, Len(idx.evolution_cases) + Len(idx.crisis_periods),
                 keywords, context_type)

\* the ids listed in the keyword index under at least one of the keywords
KeywordUnion(idx, keywords) ==
    UNION {SeqToSet(idx.keywords[k]) : k \in keywords \cap DOMAIN idx.keywords}

\* C11: every record the full scan scores above 0 for a query is listed in the
\* keyword index under at least one keyword of the query, so that a scan of
\* the union of those lists gives the same output.
C11_KeywordUnionCoversScan ==
    Searched =>
        LET keywords == ExtractKeywords(observed.query).val
            scanned == ScanMatches(memory_index, keywords, observed.context_type)
        IN \A i \in 1..Len(scanned) :
              scanned[i].id \in KeywordUnion(memory_index, keywords)

\* the place of a returned entry in the scan: the cases in the insertion order
\* of their dict, then the crisis periods in the insertion order of theirs
ScanPosition(idx, m) ==
    IF m.type = "evolution_case"
    THEN CHOOSE i \in 1..Len(idx.evolution_cases) : idx.evolution_cases[i].key = m.id
    ELSE Len(idx.evolution_cases)
         + (CHOOSE i \in 1..Len(idx.crisis_periods) : idx.crisis_periods[i].key = m.id)

\* C12: entries of equal score are returned in the order they were scanned
\* (insertion order within a partition, every case before every crisis
\* period), and the cut to the top K keeps this: an entry that was cut off was
\* scanned after every returned entry of the same score.
C12_TiesKeepScanOrder ==
    Searched =>
        LET m == observed.matches
            keywords == ExtractKeywords(observed.query).val
            scanned == ScanMatches(memory_index, keywords, observed.context_type)
            cut == {StripMatch(scanned[i]) : i \in 1..Len(scanned)} \ SeqToSet(m)
        IN /\ \A i, j \in 1..Len(m) :
                 (i < j /\ m[i].score = m[j].score)
                     => ScanPosition(memory_index, m[i]) < ScanPosition(memory_index, m[j])
           /\ \A x \in cut : \A i \in 1..Len(m) :
                 m[i].score = x.score
                     => ScanPosition(memory_index, m[i]) < ScanPosition(memory_index, x)

\* two cases and a crisis period score the same; the two cases are returned in
\* their insertion order and the crisis period is cut off
C12_Witness ==
    /\ Searched
    /\ config.retrieval_top_k = MaxTopK
    /\ Len(observed.matches) = MaxTopK
    /\ \A i \in 1..Len(observed.matches) :
          /\ observed.matches[i].type = "evolution_case"
          /\ observed.matches[i].score = observed.matches[1].score
    /\ \E i \in 1..Len(memory_index.crisis_periods) :
          CalculateRelevanceScore(memory_index.crisis_periods[i].value.content,
                                  ExtractKeywords(observed.query).val)
              = observed.matches[1].score

\* the list _search_memory returned to the last query, metadata included
\* (a query leaves the index and the configuration as they were)
LastRelevantCases ==
    SearchMemory(memory_index, config.retrieval_top_k,
                 ExtractKeywords(observed.query).val, observed.context_type)

\* the area of highest count that occurs first in the list
FirstMostCommonArea(areas) ==
    areas[Min({i \in 1..Len(areas) : areas[i] \in MostCommonAreas(areas)})]

\* C13: the dominant-category line of the insights names the category of
\* highest count among the matches, and among several of highest count the
\* one that occurs first in the match list.
C13_DominantIsFirstOfHighest ==
    (Succeeded /\ observed.searched /\ AreasOf(LastRelevantCases) # <<>>) =>
        Contains(result.value.response,
                 "- Area legal mas relevante: "
                 \o FirstMostCommonArea(AreasOf(LastRelevantCases)) \o "\n")

\* the row has a start date of at least 4 characters
HasLongStartDate(case) ==
    ~IsNa(case.fecha_inicio) /\ Len(Str(case.fecha_inicio)) >= YearPrefixLen

\* C14: after a build, a row whose start date is present and at least 4
\* characters long is listed in the year index under the first 4 characters
\* of that date, and nothing else is in the year index: a row whose start
\* date is missing or shorter adds no key and no id.
C14_YearIndexSkipsShortDates ==
    pc = "ready" =>
        LET rows == SeqToSet(evolution_cases)
            temporal == memory_index.temporal
        IN /\ \A case \in rows :
                 HasLongStartDate(case) =>
                     /\ CaseYear(case) \in DOMAIN temporal
                     /\ case.case_id \in SeqToSet(temporal[CaseYear(case)])
           /\ \A year \in DOMAIN temporal :
                 /\ Len(year) = YearPrefixLen
                 /\ \A id \in SeqToSet(temporal[year]) :
                       \E case \in rows :
                          /\ HasLongStartDate(case)
                          /\ CaseYear(case) = year
                          /\ case.case_id = id

\* the 4-digit tokens of s that start with 19 or 20, each in full
YearTokens(s) ==
    {w \in SeqToSet(FindAllWords(s)) :
        /\ Len(w) = YearPrefixLen
        /\ SubSeq(w, 1, 2) \in {"19", "20"}
        /\ IsDigit(SubSeq(w, 3, 3))
        /\ IsDigit(SubSeq(w, 4, 4))}

\* C15: the temporal_patterns field of the analysis is exactly the set of
\* 4-digit tokens starting with 19 or 20 that occur in the response text,
\* each of them in full.
C15_TemporalPatternsAreYears ==
    Succeeded =>
        result.value.analysis.temporal_patterns = YearTokens(result.value.response)

===========================================================================
